---- MODULE Spec2Model ----
(***************************************************************************)
(* GEM++ AdjacencyMatrixParser: parseData reads a text holding two         *)
(* adjacency matrices back to back and builds two directed graphs.         *)
(*                                                                         *)
(* A QString is a sequence of one-character strings, a QStringList a       *)
(* sequence of QStrings.  An int is a 32-bit signed integer.               *)
(***************************************************************************)
EXTENDS Integers, Sequences, FiniteSets, TLC

VARIABLES data, pc, lines, result, error, heap, calls

vars == <<data, pc, lines, result, error, heap, calls>>

(***************************************************************************)
(* Bounds of the model.                                                    *)
(***************************************************************************)
\* The most raw lines (separated by '\n') of an input text.
MaxLines == 5

\* The most lines appended after the second block.
MaxExtra == 1

(***************************************************************************)
(* QString                                                                 *)
(***************************************************************************)
NL == "\n"
SP == " "

\* QChar::isSpace for the characters of the model's alphabet.
isSpace(c) == c \in {" ", "\t", "\r", "\n"}

Digits == {"0", "1", "2", "3", "4", "5", "6", "7", "8", "9"}

DigitValue == [c \in Digits |->
    CASE c = "0" -> 0 [] c = "1" -> 1 [] c = "2" -> 2 [] c = "3" -> 3
      [] c = "4" -> 4 [] c = "5" -> 5 [] c = "6" -> 6 [] c = "7" -> 7
      [] c = "8" -> 8 [] c = "9" -> 9]

\* The largest int.
INT_MAX == 2147483647

isEmpty(s) == Len(s) = 0

RECURSIVE dropLeadingSpace(_)
dropLeadingSpace(s) ==
    IF Len(s) > 0 /\ isSpace(Head(s)) THEN dropLeadingSpace(Tail(s)) ELSE s

RECURSIVE dropTrailingSpace(_)
dropTrailingSpace(s) ==
    IF Len(s) > 0 /\ isSpace(s[Len(s)])
    THEN dropTrailingSpace(SubSeq(s, 1, Len(s) - 1))
    ELSE s

\* QString::trimmed: whitespace removed from both ends.
trimmed(s) == dropTrailingSpace(dropLeadingSpace(s))

\* The sections of s between occurrences of sep, empty sections kept
\* (QString::split with KeepEmptyParts); cur is the section being read.
RECURSIVE sections(_, _, _)
sections(s, sep, cur) ==
    IF Len(s) = 0 THEN <<cur>>
    ELSE IF Head(s) = sep THEN <<cur>> \o sections(Tail(s), sep, <<>>)
    ELSE sections(Tail(s), sep, Append(cur, Head(s)))

\* QString::split(sep, QString::SkipEmptyParts): empty sections are left out.
split(s, sep) == SelectSeq(sections(s, sep, <<>>), LAMBDA t : ~isEmpty(t))

\* The digits of s read as a decimal number; -1 when it exceeds limit.
RECURSIVE digitsValue(_, _, _)
digitsValue(s, acc, limit) ==
    IF Len(s) = 0 THEN acc
    ELSE LET d == DigitValue[Head(s)] IN
         IF acc > (limit - d) \div 10 THEN -1
         ELSE digitsValue(Tail(s), 10 * acc + d, limit)

\* QString::toInt(&ok): base 10, an optional sign, digits, surrounding
\* whitespace allowed; ok is false and the value 0 when s is no number or
\* the number does not fit an int.
toInt(s) ==
    LET t == trimmed(s)
        neg == Len(t) > 0 /\ Head(t) = "-"
        signed == Len(t) > 0 /\ Head(t) \in {"-", "+"}
        ds == IF signed THEN Tail(t) ELSE t
        wellFormed == Len(ds) > 0 /\ \A k \in 1..Len(ds) : ds[k] \in Digits
        \* -INT_MAX - 1 is the least int: its magnitude is read as INT_MAX
        \* plus one, which the model's numbers cannot hold, so the magnitude
        \* is read against INT_MAX and the least int is told apart by text.
        isMin == neg /\ ds = <<"2","1","4","7","4","8","3","6","4","8">>
        mag == IF wellFormed /\ ~isMin THEN digitsValue(ds, 0, INT_MAX) ELSE -1
    IN  IF isMin THEN [ok |-> TRUE, value |-> -INT_MAX - 1]
        ELSE IF mag < 0 THEN [ok |-> FALSE, value |-> 0]
        ELSE [ok |-> TRUE, value |-> IF neg THEN -mag ELSE mag]

RECURSIVE numberDigits(_)
numberDigits(n) ==
    LET d == CHOOSE c \in Digits : DigitValue[c] = n % 10 IN
    IF n < 10 THEN <<d>> ELSE Append(numberDigits(n \div 10), d)

\* QString::number(n).
number(n) == IF n < 0 THEN <<"-">> \o numberDigits(-n) ELSE numberDigits(n)

(***************************************************************************)
(* Exception: the message thrown.  Every Exception(...) statement of the   *)
(* parser aborts the call with its message; the fields hold the arguments  *)
(* the message is formatted from (.arg), unused ones left empty.           *)
(***************************************************************************)
NoError == [kind |-> "none", graph |-> 0, row |-> 0, col |-> 0,
            value |-> <<>>, actual |-> 0, expected |-> 0]

Exception(kind, graph, row, col, value, actual, expected) ==
    [kind |-> kind, graph |-> graph, row |-> row, col |-> col,
     value |-> value, actual |-> actual, expected |-> expected]

\* "File must contain at least two graphs (vertex count lines)"
MalformedInput == Exception("MalformedInput", 0, 0, 0, <<>>, 0, 0)

\* "Unexpected end of file while parsing graph %1"
UnexpectedEndOfInput(graphIndex) ==
    Exception("UnexpectedEndOfInput", graphIndex + 1, 0, 0, <<>>, 0, 0)

\* "Invalid vertex count '%1' for graph %2"
InvalidVertexCount(text, graphIndex) ==
    Exception("InvalidVertexCount", graphIndex + 1, 0, 0, text, 0, 0)

\* "Not enough lines for adjacency matrix of graph %1"
InsufficientMatrixRows(graphIndex) ==
    Exception("InsufficientMatrixRows", graphIndex + 1, 0, 0, <<>>, 0, 0)

\* "Adjacency matrix row %1 of graph %2 has %3 values, expected %4"
RowLengthMismatch(i, graphIndex, size, vertexCount) ==
    Exception("RowLengthMismatch", graphIndex + 1, i + 1, 0, <<>>,
              size, vertexCount)

\* "Invalid adjacency matrix value '%1' at position (%2,%3) in graph %4"
InvalidMatrixText(text, i, j, graphIndex) ==
    Exception("InvalidMatrixValue", graphIndex + 1, i + 1, j + 1, text, 0, 0)

\* "Adjacency matrix value %1 at position (%2,%3) in graph %4 is not 0 or 1"
InvalidMatrixWeight(weight, i, j, graphIndex) ==
    Exception("InvalidMatrixValue", graphIndex + 1, i + 1, j + 1,
              number(weight), 0, 0)

(***************************************************************************)
(* Graph: what the parser builds through Graph, Vertex and Edge.           *)
(* vertices counts the addVertex calls: vertex k (from 0) is the k-th      *)
(* added and is labelled QString::number(k).  edges holds the edges in     *)
(* creation order; edgesOut and edgesIn hold the registrations             *)
(* Vertex::addEdge made, as <<vertex, edge>> with edge an index of edges.  *)
(***************************************************************************)
NoGraph == [type |-> "none", id |-> <<>>, vertices |-> 0, edges |-> <<>>,
            edgesOut |-> <<>>, edgesIn |-> <<>>]

\* new Graph(Graph::DIRECTED); setID(QString("graph_%1").arg(graphIndex)).
createGraph(graphIndex) ==
    [type |-> "DIRECTED",
     id |-> <<"g", "r", "a", "p", "h", "_">> \o number(graphIndex),
     vertices |-> 0, edges |-> <<>>, edgesOut |-> <<>>, edgesIn |-> <<>>]

\* The loop adding vertexCount vertices, labelled 0 .. vertexCount-1.
addVertices(graph, vertexCount) ==
    [graph EXCEPT !.vertices = graph.vertices + vertexCount]

\* cellEdge with origin and target exchanged.
cellEdgeReversed(i, j) == [origin |-> j, target |-> i]

\* The edge made for matrix cell (i, j).
cellEdge(i, j) == [origin |-> i, target |-> j]

\* new Edge from vertex i to vertex j, added to the graph and to the two
\* vertices.
addEdge(graph, i, j) ==
    LET e == Len(graph.edges) + 1 IN
    [graph EXCEPT !.edges = Append(@, cellEdge(i, j)),
                  !.edgesOut = Append(@, <<cellEdge(i, j).origin, e>>),
                  !.edgesIn = Append(@, <<cellEdge(i, j).target, e>>)]

(***************************************************************************)
(* The alphabet of input lines.  An input is a sequence of them joined by  *)
(* '\n'.  CoreLines are the lines of well-formed inputs and the blank      *)
(* line: the counts and values 0, 1, 2 (one with a '\r' left by a "\r\n"   *)
(* line end), rows of two tokens with regular and irregular spacing, and a *)
(* whitespace-only line.  LineSet adds an empty line, a negative number, a *)
(* row with a token that is no number, a row with the value 2, and the      *)
(* largest int.                                                            *)
(***************************************************************************)
CoreLines ==
    { <<" ">>,
      <<"0">>,
      <<"1", "\r">>,
      <<"2">>,
      <<"1", " ", "0">>,
      <<" ", "0", " ", " ", "1">> }

LineSet ==
    CoreLines \cup
    { <<>>,
      <<"-", "1">>,
      <<"1", " ", "x">>,
      <<"1", " ", "2">>,
      <<"2", "1", "4", "7", "4", "8", "3", "6", "4", "7">> }

(***************************************************************************)
(* parseSingleGraph                                                        *)
(*                                                                         *)
(* A call ends in one of the outcomes "returned" (with graph and           *)
(* nextLine), "thrown" (with error) or "crashed" (a read outside the list  *)
(* that killed the process).  Where the code's behaviour is undefined the  *)
(* call has several outcomes, so the operators yield sets of outcomes.     *)
(* allocated holds the graphs the call made with new and did not delete;   *)
(* read, rows and cells record which lines the call read through           *)
(* lines[...], which rows it split and which cells it converted.           *)
(***************************************************************************)

\* validVertexCount with vertexCount < 0 in place of vertexCount <= 0.
validVertexCountFromZero(ok, vertexCount) == ok /\ vertexCount >= 0

\* if(!ok || vertexCount <= 0) Exception(...): the condition negated.
validVertexCount(ok, vertexCount) == ok /\ vertexCount > 0

\* if(currentLine + vertexCount > lines.size()).  The sum of two ints
\* overflows when it exceeds INT_MAX, which is undefined: the build either
\* compares the wrapped sum or (having rearranged the comparison) gives the
\* answer of the unbounded sum.
rowsMissing(currentLine, vertexCount, size) ==
    IF vertexCount > INT_MAX - currentLine
    THEN LET wrapped == (currentLine - INT_MAX - 1) + (vertexCount - INT_MAX - 1)
         IN  {wrapped > size, TRUE}
    ELSE {currentLine + vertexCount > size}

\* rowLengthOk with values.size() < vertexCount in place of !=.
rowLengthAtLeast(size, vertexCount) == size >= vertexCount

\* if(values.size() != vertexCount) Exception(...): the condition negated.
rowLengthOk(size, vertexCount) == size = vertexCount

\* weightRejected with weight < 0 in place of weight != 1: every positive
\* weight makes an edge.
weightRejectedNegative(weight) == weight < 0

\* if(weight != 0) { if(weight != 1) Exception(...); ... }
weightRejected(weight) == weight # 0 /\ weight # 1

\* nextLineAfter one short: the index of the last matrix row.
nextLineAtLastRow(currentLine, vertexCount) == currentLine + vertexCount - 1

\* The second component of the returned pair.
nextLineAfter(currentLine, vertexCount) == currentLine + vertexCount

\* The loop over the columns j .. vertexCount-1 of row i.
RECURSIVE parseCells(_, _, _, _, _, _, _)
parseCells(values, i, j, vertexCount, graphIndex, graph, cells) ==
    IF j >= vertexCount
    THEN [thrown |-> FALSE, error |-> NoError, graph |-> graph, cells |-> cells]
    ELSE LET r == toInt(values[j + 1])
             weight == r.value
             seen == Append(cells, <<i, j>>)
         IN  IF ~r.ok
             THEN [thrown |-> TRUE,
                   error |-> InvalidMatrixText(values[j + 1], i, j, graphIndex),
                   graph |-> graph, cells |-> seen]
             ELSE IF weight # 0
             THEN IF weightRejected(weight)
                  THEN [thrown |-> TRUE,
                        error |-> InvalidMatrixWeight(weight, i, j, graphIndex),
                        graph |-> graph, cells |-> seen]
                  ELSE parseCells(values, i, j + 1, vertexCount, graphIndex,
                                  addEdge(graph, i, j), seen)
             ELSE parseCells(values, i, j + 1, vertexCount, graphIndex,
                             graph, seen)

RECURSIVE parseRows(_, _, _, _, _, _)
\* The body of the row loop for row i, whose line is in hand, and the rows
\* after it.
parseRow(lines_, line, currentLine, vertexCount, graphIndex, i, t) ==
    LET values == split(line, SP)
        seenRows == Append(t.rows, i)
    IN  IF ~rowLengthOk(Len(values), vertexCount)
        THEN {[status |-> "thrown",
               error |-> RowLengthMismatch(i, graphIndex, Len(values), vertexCount),
               graph |-> t.graph, read |-> t.read, rows |-> seenRows,
               cells |-> t.cells]}
        ELSE LET c == parseCells(values, i, 0, vertexCount, graphIndex,
                                 t.graph, t.cells)
             IN  IF c.thrown
                 THEN {[status |-> "thrown", error |-> c.error,
                        graph |-> c.graph, read |-> t.read, rows |-> seenRows,
                        cells |-> c.cells]}
                 ELSE parseRows(lines_, currentLine, vertexCount, graphIndex,
                                i + 1,
                                [t EXCEPT !.graph = c.graph, !.rows = seenRows,
                                          !.cells = c.cells])

\* The loop over the rows i .. vertexCount-1.  lines[currentLine + i] with
\* the index outside the list is undefined: the process crashes or the read
\* yields some string.
parseRows(lines_, currentLine, vertexCount, graphIndex, i, t) ==
    IF i >= vertexCount
    THEN {[status |-> "returned", error |-> NoError, graph |-> t.graph,
           read |-> t.read, rows |-> t.rows, cells |-> t.cells]}
    ELSE LET at == currentLine + i
             t1 == [t EXCEPT !.read = @ \cup {at}]
         IN  IF at < Len(lines_)
             THEN parseRow(lines_, lines_[at + 1], currentLine, vertexCount,
                           graphIndex, i, t1)
             ELSE {[status |-> "crashed", error |-> NoError, graph |-> t.graph,
                    read |-> t1.read, rows |-> t.rows, cells |-> t.cells]}
                  \cup UNION { parseRow(lines_, garbage, currentLine,
                                        vertexCount, graphIndex, i, t1)
                               : garbage \in LineSet }

\* The outcome of a call that throws before it makes its graph.
thrownEarly(err, startLine, graphIndex, vertexCount, read) ==
    [status |-> "thrown", error |-> err, graph |-> NoGraph, nextLine |-> 0,
     allocated |-> <<>>, startLine |-> startLine,
     graphIndex |-> graphIndex, vertexCount |-> vertexCount, read |-> read,
     rows |-> <<>>, cells |-> <<>>]

\* After the bound check: the graph and its vertices are made, the matrix
\* is read.  A graph under construction when the call throws or crashes is
\* never deleted.
buildGraph(lines_, startLine, graphIndex, vertexCount) ==
    LET currentLine == startLine + 1
        graph == addVertices(createGraph(graphIndex), vertexCount)
        t0 == [graph |-> graph, read |-> {startLine}, rows |-> <<>>,
               cells |-> <<>>]
    IN  { [status |-> o.status, error |-> o.error,
           graph |-> IF o.status = "returned" THEN o.graph ELSE NoGraph,
           nextLine |-> IF o.status = "returned"
                        THEN nextLineAfter(currentLine, vertexCount) ELSE 0,
           allocated |-> <<o.graph>>, startLine |-> startLine,
           graphIndex |-> graphIndex, vertexCount |-> vertexCount,
           read |-> o.read, rows |-> o.rows, cells |-> o.cells]
          : o \in parseRows(lines_, currentLine, vertexCount, graphIndex, 0, t0) }

parseSingleGraph(lines_, startLine, graphIndex) ==
    IF startLine >= Len(lines_)
    THEN {thrownEarly(UnexpectedEndOfInput(graphIndex), startLine,
                      graphIndex, 0, {})}
    ELSE LET r == toInt(lines_[startLine + 1])
             vertexCount == r.value
             currentLine == startLine + 1
         IN  IF ~validVertexCount(r.ok, vertexCount)
             THEN {thrownEarly(InvalidVertexCount(lines_[startLine + 1], graphIndex),
                               startLine, graphIndex, vertexCount, {startLine})}
             ELSE UNION {
                    IF missing
                    THEN {thrownEarly(InsufficientMatrixRows(graphIndex),
                                      startLine, graphIndex, vertexCount,
                                      {startLine})}
                    ELSE buildGraph(lines_, startLine, graphIndex, vertexCount)
                    : missing \in rowsMissing(currentLine, vertexCount,
                                              Len(lines_)) }

(***************************************************************************)
(* parseData                                                               *)
(***************************************************************************)

\* Remove empty lines from the end.
RECURSIVE removeTrailingEmpty(_)
removeTrailingEmpty(ls) ==
    IF Len(ls) > 0 /\ isEmpty(ls[Len(ls)])
    THEN removeTrailingEmpty(SubSeq(ls, 1, Len(ls) - 1))
    ELSE ls

\* readLines with the blank lines removed everywhere, not only at the end.
readLinesSkipBlank(text) ==
    LET parts == split(text, NL)
    IN  SelectSeq([k \in 1..Len(parts) |-> trimmed(parts[k])],
                  LAMBDA l : ~isEmpty(l))

\* The lines of the text: split on '\n' with the empty parts skipped, each
\* line trimmed, the empty lines at the end removed.
readLines(text) ==
    LET parts == split(text, NL)
    IN  removeTrailingEmpty([k \in 1..Len(parts) |-> trimmed(parts[k])])

\* tooFewLines with 1 in place of 2.
tooFewLinesOne(size) == size < 1

\* if(lines.size() < 2) Exception(...)
tooFewLines(size) == size < 2

\* What a call of parseData ends in: its status, the pair returned or the
\* error thrown, the graphs left allocated, and the parseSingleGraph calls
\* it made.
dataOutcome(status, err, pair, allocated, lines_, made) ==
    [status |-> status, error |-> err, result |-> pair, heap |-> allocated,
     lines |-> lines_, calls |-> made]

\* parseSecond rejecting lines that follow the second block.
parseSecondStrict(lines_, first) ==
    { IF second.status = "returned" /\ second.nextLine # Len(lines_)
      THEN dataOutcome("thrown", MalformedInput, <<>>,
                       first.allocated \o second.allocated, lines_,
                       <<first, second>>)
      ELSE dataOutcome(second.status, second.error,
                       IF second.status = "returned"
                       THEN <<first.graph, second.graph>> ELSE <<>>,
                       first.allocated \o second.allocated, lines_,
                       <<first, second>>)
      : second \in parseSingleGraph(lines_, first.nextLine, 1) }

\* Parse second graph, after a first call that returned.
parseSecond(lines_, first) ==
    { dataOutcome(second.status, second.error,
                  IF second.status = "returned"
                  THEN <<first.graph, second.graph>> ELSE <<>>,
                  first.allocated \o second.allocated, lines_,
                  <<first, second>>)
      : second \in parseSingleGraph(lines_, first.nextLine, 1) }

parseData(text) ==
    LET lines_ == readLines(text)
    IN  IF tooFewLines(Len(lines_))
        THEN {dataOutcome("thrown", MalformedInput, <<>>, <<>>, lines_, <<>>)}
        ELSE UNION {
               IF first.status = "returned"
               THEN parseSecond(lines_, first)
               ELSE {dataOutcome(first.status, first.error, <<>>,
                                 first.allocated, lines_, <<first>>)}
               : first \in parseSingleGraph(lines_, 0, 0) }

(***************************************************************************)
(* The inputs and the state machine: one call of parseData on a text.      *)
(***************************************************************************)
RECURSIVE join(_)
join(segs) ==
    IF Len(segs) = 1 THEN segs[1]
    ELSE segs[1] \o <<NL>> \o join(Tail(segs))

\* The texts of 1 .. n lines of the alphabet.
IsText(text, alphabet, n) ==
    \E k \in 1..n : \E segs \in [1..k -> alphabet] : text = join(segs)

\* The inputs: up to MaxLines lines of CoreLines, or fewer than MaxLines
\* lines of LineSet.
Init ==
    /\ \/ IsText(data, CoreLines, MaxLines)
       \/ IsText(data, LineSet, MaxLines - 1)
    /\ pc = "call"
    /\ lines = <<>>
    /\ result = <<>>
    /\ error = NoError
    /\ heap = <<>>
    /\ calls = <<>>

\* parseData(data), from the call to its return, throw or crash.
ParseData ==
    /\ pc = "call"
    /\ \E o \in parseData(data) :
         /\ pc' = o.status
         /\ lines' = o.lines
         /\ result' = o.result
         /\ error' = o.error
         /\ heap' = o.heap
         /\ calls' = o.calls
    /\ UNCHANGED data

Next == ParseData

Spec == Init /\ [][Next]_vars

(***************************************************************************)
(* Notions the properties are stated with.                                 *)
(***************************************************************************)
Returned == pc = "returned"
Failed == pc = "thrown"
Ended == pc # "call"

IsBlank(s) == \A k \in 1..Len(s) : isSpace(s[k])

\* The raw lines of a text: what lies between its '\n' characters.
RawLines(text) == sections(text, NL, <<>>)

\* The index of the last line of ls that is not blank, 0 if there is none.
LastNonBlank(ls) ==
    LET S == { k \in 1..Len(ls) : ~IsBlank(ls[k]) }
    IN  IF S = {} THEN 0 ELSE CHOOSE k \in S : \A m \in S : m <= k

\* The number of tokens of a row: the maximal runs of characters other
\* than the space.
TokenCount(line) ==
    Cardinality({ k \in 1..Len(line) :
                    line[k] # SP /\ (k = 1 \/ line[k - 1] = SP) })

\* Token j (from 0) of row i (from 0) of the block whose count line is
\* line s (from 0) of the stream.
Token(s, i, j) == split(lines[s + 1 + i + 1], SP)[j + 1]

\* A value the matrix may not hold: no integer, or an integer other than
\* 0 and 1.
BadValue(tok) == ~toInt(tok).ok \/ toInt(tok).value \notin {0, 1}

\* A count line that declares no vertex count: no integer, or one <= 0.
BadCount(line) == ~toInt(line).ok \/ toInt(line).value <= 0

\* The pairs <<origin, target>> of a graph's edges.
EdgePairs(g) == { <<g.edges[k].origin, g.edges[k].target>> : k \in 1..Len(g.edges) }

(***************************************************************************)
(* C1.  When parseData succeeds, the first graph is built from block 1     *)
(* (count line 0) and the second from block 2 (count line 1 + N1); each    *)
(* has exactly its declared number N of vertices, and an edge from i to j, *)
(* exactly one, registered as outgoing on i and incoming on j, if and only *)
(* if the token at row i, column j has the value 1.                        *)
(***************************************************************************)
BuiltFrom(g, s, graphIndex) ==
    LET N == toInt(lines[s + 1]).value IN
    /\ g.type = "DIRECTED"
    /\ g.id = <<"g", "r", "a", "p", "h", "_">> \o number(graphIndex)
    /\ g.vertices = N
    /\ EdgePairs(g) = { <<i, j>> \in (0..(N - 1)) \X (0..(N - 1)) :
                          toInt(Token(s, i, j)).value = 1 }
    /\ Cardinality(EdgePairs(g)) = Len(g.edges)
    /\ g.edgesOut = [k \in 1..Len(g.edges) |-> <<g.edges[k].origin, k>>]
    /\ g.edgesIn = [k \in 1..Len(g.edges) |-> <<g.edges[k].target, k>>]

C1_EdgesMatchMatrix ==
    Returned =>
        /\ Len(result) = 2
        /\ BuiltFrom(result[1], 0, 0)
        /\ BuiltFrom(result[2], 1 + toInt(lines[1]).value, 1)

\* A success whose first graph has two vertices and an edge 0 -> 1 without
\* the edge 1 -> 0.
C1_Witness ==
    /\ Returned
    /\ result[1].vertices = 2
    /\ <<0, 1>> \in EdgePairs(result[1])
    /\ <<1, 0>> \notin EdgePairs(result[1])

(***************************************************************************)
(* C2.  Whenever parseData fails, no graph allocated during the call       *)
(* remains allocated afterwards.                                           *)
(***************************************************************************)
C2_NothingLeftAllocated == Failed => heap = <<>>

(***************************************************************************)
(* C3 as claimed.  Whenever the vertex-count line of a block is no valid   *)
(* integer or is <= 0, the parse fails with InvalidVertexCount; the input  *)
(* "0\n" fails with InvalidVertexCount.  Block 1's count line is the first *)
(* line of the stream.                                                     *)
(***************************************************************************)
C3_AsClaimed ==
    Ended /\ Len(lines) >= 1 /\ BadCount(lines[1]) =>
        Failed /\ error.kind = "InvalidVertexCount"

(***************************************************************************)
(* C3 amended.  Whenever the stream holds at least two lines and the       *)
(* vertex-count line of a block that parseSingleGraph is called on is no   *)
(* valid integer or is <= 0, the parse fails with InvalidVertexCount       *)
(* naming that line and that block; the one-line input "0\n" fails with    *)
(* MalformedInput.                                                         *)
(***************************************************************************)
C3_InvalidVertexCount ==
    Ended =>
        /\ Len(lines) >= 2 => Len(calls) >= 1 /\ calls[1].startLine = 0
        /\ \A k \in 1..Len(calls) :
             LET s == calls[k].startLine IN
             s < Len(lines) /\ BadCount(lines[s + 1]) =>
                 /\ Failed
                 /\ error.kind = "InvalidVertexCount"
                 /\ error.graph = k
                 /\ error.value = lines[s + 1]
        /\ data = <<"0", NL>> => Failed /\ error.kind = "MalformedInput"

\* Block 2's count line is reached and declares no vertex count.
C3_Witness ==
    /\ Failed
    /\ Len(calls) = 2
    /\ calls[2].startLine < Len(lines)
    /\ BadCount(lines[calls[2].startLine + 1])
    /\ toInt(lines[calls[2].startLine + 1]).ok

(***************************************************************************)
(* C4 as claimed.  Blank lines are dropped only at the end of the input:   *)
(* the line stream is the raw lines, trimmed, up to the last one that is   *)
(* not blank, every interior blank line at its position.                   *)
(***************************************************************************)
C4_AsClaimed ==
    Ended =>
        LET raw == RawLines(data) IN
        /\ Len(lines) = LastNonBlank(raw)
        /\ \A k \in 1..Len(lines) : lines[k] = trimmed(raw[k])

(***************************************************************************)
(* C4 amended.  Lines of length zero are dropped wherever they are; a      *)
(* blank line that holds at least one whitespace character is dropped only *)
(* at the end of the input: the line stream is the raw lines of non-zero   *)
(* length, trimmed, up to the last one that is not blank, every interior   *)
(* whitespace-only line at its position among them.                        *)
(***************************************************************************)
C4_InteriorWhitespaceLinesStay ==
    Ended =>
        LET kept == SelectSeq(RawLines(data), LAMBDA l : Len(l) > 0) IN
        /\ Len(lines) = LastNonBlank(kept)
        /\ \A k \in 1..Len(lines) : lines[k] = trimmed(kept[k])

\* A whitespace-only line stays in the stream between the two blocks and
\* is read as block 2's count line.
C4_Witness ==
    /\ Failed
    /\ Len(calls) = 2
    /\ calls[2].startLine < Len(lines) - 1
    /\ lines[calls[2].startLine + 1] = <<>>

(***************************************************************************)
(* C5.  Lines after the last matrix row of the second block are ignored:   *)
(* when parseData succeeds on the text, it also succeeds on the text       *)
(* followed by any 1 .. MaxExtra further lines, with the same two graphs.  *)
(***************************************************************************)
ExtraLines == UNION { [1..k -> LineSet] : k \in 1..MaxExtra }

C5_TrailingLinesIgnored ==
    Returned =>
        \A extra \in ExtraLines :
            \A o \in parseData(data \o <<NL>> \o join(extra)) :
                o.status = "returned" /\ o.result = result

\* A success on a text whose second block is followed by a further line,
\* one that declares no vertex count.
C5_Witness ==
    /\ Returned
    /\ calls[2].nextLine < Len(lines)
    /\ BadCount(lines[Len(lines)])

(***************************************************************************)
(* C6.  For every cell (i, j) the scan converts, a token that is no valid  *)
(* integer, or whose value is neither 0 nor 1, makes the parse fail with   *)
(* InvalidMatrixValue carrying the offending value, the position           *)
(* (i+1, j+1) and the block number from 1; no edge is made for the cell.   *)
(***************************************************************************)
C6_NoCoercion ==
    Ended =>
        \A k \in 1..Len(calls) :
            LET c == calls[k] IN
            \A n \in 1..Len(c.cells) :
                LET i == c.cells[n][1]
                    j == c.cells[n][2]
                    tok == Token(c.startLine, i, j)
                IN  BadValue(tok) =>
                        /\ Failed
                        /\ error.kind = "InvalidMatrixValue"
                        /\ error.value = IF toInt(tok).ok
                                         THEN number(toInt(tok).value)
                                         ELSE tok
                        /\ error.row = i + 1
                        /\ error.col = j + 1
                        /\ error.graph = c.graphIndex + 1
                        /\ <<i, j>> \notin EdgePairs(c.allocated[1])

\* The value 2 at position (1,2) of graph 1.
C6_Witness ==
    /\ Failed
    /\ error.kind = "InvalidMatrixValue"
    /\ error.value = <<"2">>
    /\ error.row = 1 /\ error.col = 2 /\ error.graph = 1

(***************************************************************************)
(* C7.  For every matrix row i the scan splits, with N the block's vertex  *)
(* count, the parse fails with RowLengthMismatch naming row i+1 and the    *)
(* block number from 1 if and only if the row's token count (runs of       *)
(* spaces counting as one separator) differs from N; the error carries the *)
(* actual count and N.                                                     *)
(***************************************************************************)
C7_RowLength ==
    Ended =>
        \A k \in 1..Len(calls) :
            LET c == calls[k] IN
            \A n \in 1..Len(c.rows) :
                LET i == c.rows[n]
                    at == c.startLine + 1 + i
                    named == /\ Failed
                             /\ error.kind = "RowLengthMismatch"
                             /\ error.graph = c.graphIndex + 1
                             /\ error.row = i + 1
                IN  at < Len(lines) =>
                        /\ named <=> TokenCount(lines[at + 1]) # c.vertexCount
                        /\ named => /\ error.actual = TokenCount(lines[at + 1])
                                    /\ error.expected = c.vertexCount

\* Row 2 of graph 1 has one token where two are expected.
C7_Witness ==
    /\ Failed
    /\ error.kind = "RowLengthMismatch"
    /\ error.graph = 1 /\ error.row = 2
    /\ error.actual = 1 /\ error.expected = 2

(***************************************************************************)
(* C8.  If fewer than two lines remain after trimming and removal of the   *)
(* trailing blank lines, parseData fails with MalformedInput before        *)
(* parsing any block: no graph is made.                                    *)
(***************************************************************************)
C8_MalformedInput ==
    Ended /\ Len(lines) < 2 =>
        /\ Failed
        /\ error = MalformedInput
        /\ calls = <<>>
        /\ heap = <<>>
        /\ result = <<>>

\* A single-line input that holds a valid vertex count.
C8_Witness ==
    /\ Failed
    /\ Len(lines) = 1
    /\ ~BadCount(lines[1])

(***************************************************************************)
(* C9.  For every vertex count the count line can declare, a call of       *)
(* parseSingleGraph fails with InsufficientMatrixRows whenever fewer than  *)
(* vertexCount lines follow the count line, and then makes no graph and    *)
(* reads no line past the end of the stream.                               *)
(***************************************************************************)
C9_InsufficientRows ==
    Ended =>
        \A k \in 1..Len(calls) :
            LET c == calls[k] IN
            /\ c.startLine < Len(lines)
            /\ ~BadCount(lines[c.startLine + 1])
            /\ Len(lines) - (c.startLine + 1) < toInt(lines[c.startLine + 1]).value
            => /\ c.status = "thrown"
               /\ c.error.kind = "InsufficientMatrixRows"
               /\ c.allocated = <<>>
               /\ \A at \in c.read : at < Len(lines)

(***************************************************************************)
(* C10.  The line cursor is threaded through the two blocks without gap or *)
(* overlap: a call that returns, started at line s with vertex count N,    *)
(* has read exactly the lines s .. s+N and returns s+1+N; block 1 starts   *)
(* at line 0 and block 2 at 1+N1; when 1+N1 is past the last line the      *)
(* parse fails with UnexpectedEndOfInput naming graph 2.                   *)
(***************************************************************************)
C10_CursorChained ==
    Ended =>
        /\ \A k \in 1..Len(calls) :
             LET c == calls[k] IN
             /\ c.status = "returned" =>
                  /\ c.read = c.startLine .. (c.startLine + c.vertexCount)
                  /\ c.nextLine = c.startLine + 1 + c.vertexCount
                  /\ c.vertexCount = toInt(lines[c.startLine + 1]).value
             /\ k = 1 => c.startLine = 0
             /\ k = 2 => c.startLine = 1 + toInt(lines[1]).value
        /\ Len(calls) <= 2
        /\ (Len(calls) >= 1 /\ calls[1].status = "returned") =>
             /\ Len(calls) = 2
             /\ 1 + toInt(lines[1]).value >= Len(lines) =>
                  /\ Failed
                  /\ error.kind = "UnexpectedEndOfInput"
                  /\ error.graph = 2

\* Block 1 has two vertices and block 2 starts right after its last row.
C10_Witness ==
    /\ Returned
    /\ calls[1].vertexCount = 2
    /\ calls[2].startLine = 3

====
